---- MODULE Spec2Model ----
(***************************************************************************)
(* The build driver of ekam (src/src/Driver.h, src/src/Driver.cpp): the    *)
(* Driver with its pending / active / blocked collections, the entity map, *)
(* the blocked-action multimap and the triggers, and the ActionDriver      *)
(* state machine that serves as the BuildContext of a running action.      *)
(*                                                                         *)
(* The driver is single threaded: every handler (Driver::start, a          *)
(* BuildContext call, StartCallback::run, DoneCallback::run) runs to       *)
(* completion, so each is one action of the model.  A handler's sequential *)
(* code is written as operators over a record `s` that holds the driver's  *)
(* data while the handler runs; the action stores the final record.        *)
(***************************************************************************)
EXTENDS Integers, Sequences, FiniteSets, TLC

\* ------------------------------------------------------------------ bounds
MaxDrivers == 3        \* ActionDrivers ever created in one run of the driver
MaxConcurrency == 2    \* largest maxConcurrentActions given to the constructor
MaxProvisions == 1     \* provide() calls per run of an action
MaxOutputs == 1        \* newOutput() calls per run of an action

\* ------------------------------------------------------------ input sets
Drivers == 1..MaxDrivers
Entities == {"HDR", "LIB"}                      \* EntityId values
EntityLists == {<<"HDR">>, <<"LIB", "HDR">>}    \* provide()'s vectors
Paths == {<<"tmp", "x.o">>}                              \* files given to provide()
Basename == "gen.h"                                      \* newOutput()'s basename
AllFactories == <<"F1">>            \* the ActionFactory objects, in map order
Factories == {AllFactories[i] : i \in 1..Len(AllFactories)}
NoFile == [path |-> <<>>, by |-> 0]             \* NULL File*

\* A File object: its path and the ActionDriver whose provide()/newOutput()
\* made the object (0 for a file of the source tree).  Two clones of one path
\* made by two drivers are two objects, as the File* keys of filePtrs are.
File(path, by) == [path |-> path, by |-> by]

\* File::parent and File::relative on paths.
parent(file) == File(SubSeq(file.path, 1, Len(file.path) - 1), file.by)
relative(dir, basename, by) == File(Append(dir.path, basename), by)

\* The source tree handed to the constructor: a directory with three files.
src == File(<<"src">>, 0)
tmp == File(<<"tmp">>, 0)
isDirectory(file) == file.path \in {<<"src">>, <<"tmp">>}
list(dir) == IF dir.path = <<"src">>
             THEN <<File(<<"src", "a.c">>, 0), File(<<"src", "b.c">>, 0),
                    File(<<"src", "c.c">>, 0)>>
             ELSE <<>>
basename(file) == file.path[Len(file.path)]

\* ActionFactory::enumerateTriggerEntities of each factory object.
enumerateTriggerEntities(factory) == IF factory = "F1" THEN <<"LIB">> ELSE <<>>

VARIABLES
  started,               \* Driver::start has run
  destroyed,             \* Driver::~Driver has run
  maxConcurrentActions,  \* Driver::maxConcurrentActions
  actionFactories,       \* Driver::actionFactories: the registered factories
  triggers,              \* Driver::triggers: EntityId -> factories (multimap)
  entityMap,             \* Driver::entityMap: EntityId -> File or NoFile
  filePtrs,              \* Driver::filePtrs: the File objects the driver owns
  activeActions,         \* Driver::activeActions (OwnedPtrVector)
  pendingActions,        \* Driver::pendingActions (OwnedPtrVector)
  blockedActions,        \* Driver::blockedActions: EntityId -> waiters (multimap)
  blockedActionPtrs,     \* Driver::blockedActionPtrs: owner of blocked drivers
  numCreated,            \* ActionDrivers allocated so far
  alive,                 \* ActionDrivers allocated and not yet destroyed
  state,                 \* ActionDriver::state ("NONE": no such object)
  missingDependencies,   \* ActionDriver::missingDependencies (its keys)
  provisions,            \* ActionDriver::provisions
  outputs,               \* ActionDriver::outputs
  tmpdir,                \* ActionDriver::tmpdir
  dashboardTask,         \* state of the Dashboard::Task of each driver
  eventGroup,            \* ActionDriver::eventGroup: what it has scheduled
  doneCallbacks,         \* DoneCallbacks of each driver queued on the EventManager
  trace                  \* what the last handler did, in order: its calls
                         \* of tryMakeAction, beginTask and setState, and the
                         \* waiters it took out of a bucket of blockedActions

vars == <<started, destroyed, maxConcurrentActions, actionFactories,
          triggers, entityMap, filePtrs, activeActions, pendingActions, blockedActions,
          blockedActionPtrs, numCreated, alive, state, missingDependencies,
          provisions, outputs, tmpdir, dashboardTask, eventGroup,
          doneCallbacks, trace>>

\* The driver's data while a handler runs.  exc: an exception is propagating;
\* ncalls: tryMakeAction calls made so far by this handler.
Cur == [entityMap |-> entityMap, filePtrs |-> filePtrs,
        activeActions |-> activeActions, pendingActions |-> pendingActions,
        blockedActions |-> blockedActions,
        blockedActionPtrs |-> blockedActionPtrs,
        numCreated |-> numCreated, alive |-> alive, state |-> state,
        missingDependencies |-> missingDependencies,
        provisions |-> provisions, outputs |-> outputs, tmpdir |-> tmpdir,
        dashboardTask |-> dashboardTask, eventGroup |-> eventGroup,
        doneCallbacks |-> doneCallbacks, trace |-> <<>>,
        exc |-> FALSE, ncalls |-> 0]

Store(s) ==
  /\ entityMap' = s.entityMap
  /\ filePtrs' = s.filePtrs
  /\ activeActions' = s.activeActions
  /\ pendingActions' = s.pendingActions
  /\ blockedActions' = s.blockedActions
  /\ blockedActionPtrs' = s.blockedActionPtrs
  /\ numCreated' = s.numCreated
  /\ alive' = s.alive
  /\ state' = s.state
  /\ missingDependencies' = s.missingDependencies
  /\ provisions' = s.provisions
  /\ outputs' = s.outputs
  /\ tmpdir' = s.tmpdir
  /\ dashboardTask' = s.dashboardTask
  /\ eventGroup' = s.eventGroup
  /\ doneCallbacks' = s.doneCallbacks
  /\ trace' = s.trace

\* Dashboard::Task::setState on the task of driver d
setState(s, d, st) ==
  [s EXCEPT !.dashboardTask[d] = st,
            !.trace = Append(@, [call |-> "setState", d |-> d, state |-> st])]

Throw(s) == [s EXCEPT !.exc = TRUE]
Caught(s) == [s EXCEPT !.exc = FALSE]

\* Dashboard::Task::addOutput: the text goes to the dashboard's output stream,
\* which is no part of the driver's data.
addOutput(s, d) == s

\* ------------------------------------------------------ ActionDriver

\* ensureRunning() that never throws
ensureRunning_Always(s, d) == TRUE

\* ActionDriver::ensureRunning: TRUE when it returns, FALSE when it throws.
ensureRunning(s, d) == s.state[d] = "RUNNING"

\* ActionDriver::queueDoneCallback
queueDoneCallback(s, d) == [s EXCEPT !.doneCallbacks[d] = @ + 1]

\* start() that forgets to set the state
start_KeepState(s, d, throws) ==
  LET s1 == setState(s, d, "RUNNING")
  IN IF throws THEN Throw(s1)
     ELSE [s1 EXCEPT !.eventGroup[d] = "start_queued"]

\* ActionDriver::start; throws: the scheduling of the StartCallback throws.
start(s, d, throws) ==
  LET s1 == setState([s EXCEPT !.state[d] = "RUNNING"], d, "RUNNING")
  IN IF throws THEN Throw(s1)
     ELSE [s1 EXCEPT !.eventGroup[d] = "start_queued"]

\* ActionDriver::findOptionalProvider: the File* it returns.
findOptionalProvider(s, d, id) == s.entityMap[id]

\* ActionDriver::findProvider
findProvider(s, d, id) ==
  IF ~ensureRunning(s, d) THEN Throw(s)
  ELSE IF findOptionalProvider(s, d, id) = NoFile
       THEN [s EXCEPT !.missingDependencies[d] = @ \cup {id}]
       ELSE s

\* ActionDriver::provide
provide(s, d, file, entities) ==
  IF ~ensureRunning(s, d) THEN Throw(s)
  ELSE [s EXCEPT !.provisions[d] =
          Append(@, [file |-> File(file.path, d), entities |-> entities])]

\* ActionDriver::log
log(s, d) == IF ~ensureRunning(s, d) THEN Throw(s) ELSE addOutput(s, d)

\* ActionDriver::newOutput
newOutput(s, d, name) ==
  IF ~ensureRunning(s, d) THEN Throw(s)
  ELSE [s EXCEPT !.outputs[d] = Append(@, relative(s.tmpdir[d], name, d))]

\* ActionDriver::success
success(s, d) ==
  IF ~ensureRunning(s, d) THEN Throw(s)
  ELSE IF s.missingDependencies[d] # {} THEN Throw(s)
  ELSE queueDoneCallback([s EXCEPT !.state[d] = "SUCCEEDED"], d)

\* ActionDriver::passed
passed(s, d) ==
  IF ~ensureRunning(s, d) THEN Throw(s)
  ELSE IF s.missingDependencies[d] # {} THEN Throw(s)
  ELSE queueDoneCallback([s EXCEPT !.state[d] = "PASSED"], d)

\* ActionDriver::failed
failed(s, d) ==
  IF ~ensureRunning(s, d) THEN Throw(s)
  ELSE queueDoneCallback([s EXCEPT !.state[d] = "FAILED"], d)

\* threwException() that only reports the exception
threwException_ReportOnly(s, d) == addOutput(s, d)

\* ActionDriver::threwException
threwException(s, d) ==
  LET s1 == addOutput(s, d)
  IN IF s1.state[d] = "RUNNING" THEN failed(s1, d) ELSE s1

\* ActionDriver::threwUnknownException
threwUnknownException(s, d) ==
  LET s1 == addOutput(s, d)
  IN IF s1.state[d] = "RUNNING" THEN failed(s1, d) ELSE s1

\* The EventGroup runs the action's code and hands an exception that leaves
\* it (a std::runtime_error here) to its ExceptionHandler, the ActionDriver.
routeException(s, d) == IF s.exc THEN threwException(Caught(s), d) ELSE s

\* ------------------------------------------------------------- Driver

\* ActionFactory::tryMakeAction, the k-th call of a handler: the factory
\* makes an action when the environment says so (answers) and the model's
\* bound on drivers allows one more.
tryMakeAction(s, answers) ==
  (s.ncalls + 1) \in answers /\ s.numCreated < MaxDrivers

\* Driver::queueNewAction together with the ActionDriver constructor
queueNewAction(s, file, tmpLocation) ==
  LET d == s.numCreated + 1
  IN [s EXCEPT !.numCreated = d,
               !.alive = @ \cup {d},
               !.state[d] = "PENDING",
               !.tmpdir[d] = parent(tmpLocation),
               !.dashboardTask[d] = "PENDING",
               !.trace = Append(@, [call |-> "beginTask", file |-> file,
                                    tmpLocation |-> tmpLocation, d |-> d]),
               !.pendingActions = Append(@, d)]

\* startSomeActions() with `if` in place of `while`: it starts one driver
startSomeActions_OneOnly(s, throwers) ==
  IF Len(s.activeActions) < maxConcurrentActions /\ s.pendingActions # <<>>
  THEN LET ptr == s.pendingActions[Len(s.pendingActions)]
           s1 == [s EXCEPT !.pendingActions = SubSeq(@, 1, Len(@) - 1),
                           !.activeActions = Append(@, ptr)]
           s2 == start(s1, ptr, ptr \in throwers)
       IN IF s2.exc THEN threwException(Caught(s2), ptr) ELSE s2
  ELSE s

\* startSomeActions() that releases the front of pendingActions
RECURSIVE startSomeActions_Fifo(_, _)
startSomeActions_Fifo(s, throwers) ==
  IF Len(s.activeActions) < maxConcurrentActions /\ s.pendingActions # <<>>
  THEN LET ptr == Head(s.pendingActions)
           s1 == [s EXCEPT !.pendingActions = Tail(@),
                           !.activeActions = Append(@, ptr)]
           s2 == start(s1, ptr, ptr \in throwers)
           s3 == IF s2.exc THEN threwException(Caught(s2), ptr) ELSE s2
       IN startSomeActions_Fifo(s3, throwers)
  ELSE s

\* startSomeActions() whose loop tests <= instead of <
RECURSIVE startSomeActions_OffByOne(_, _)
startSomeActions_OffByOne(s, throwers) ==
  IF Len(s.activeActions) <= maxConcurrentActions /\ s.pendingActions # <<>>
  THEN LET ptr == s.pendingActions[Len(s.pendingActions)]
           s1 == [s EXCEPT !.pendingActions = SubSeq(@, 1, Len(@) - 1),
                           !.activeActions = Append(@, ptr)]
           s2 == start(s1, ptr, ptr \in throwers)
           s3 == IF s2.exc THEN threwException(Caught(s2), ptr) ELSE s2
       IN startSomeActions_OffByOne(s3, throwers)
  ELSE s

\* Driver::startSomeActions; throwers: the drivers whose start() throws.
RECURSIVE startSomeActions(_, _)
startSomeActions(s, throwers) ==
  IF Len(s.activeActions) < maxConcurrentActions /\ s.pendingActions # <<>>
  THEN LET ptr == s.pendingActions[Len(s.pendingActions)]
           s1 == [s EXCEPT !.pendingActions = SubSeq(@, 1, Len(@) - 1),
                           !.activeActions = Append(@, ptr)]
           s2 == start(s1, ptr, ptr \in throwers)
           s3 == IF s2.exc THEN threwException(Caught(s2), ptr) ELSE s2
       IN startSomeActions(s3, throwers)
  ELSE s

\* The factories of actionFactories in the map's iteration order.
factoryOrder == SelectSeq(AllFactories, LAMBDA f : f \in actionFactories)

\* Driver::scanForActions, the factory loop over one file (lines 424-431)
RECURSIVE scanFile(_, _, _, _)
scanFile(s, pair, factories, answers) ==
  IF factories = <<>> THEN s
  ELSE LET made == tryMakeAction(s, answers)
           s1 == [s EXCEPT !.ncalls = @ + 1,
                           !.trace = Append(@, [call |-> "tryMakeAction",
                                                factory |-> Head(factories),
                                                id |-> "",
                                                file |-> pair.srcFile,
                                                made |-> made])]
           s2 == IF made
                 THEN queueNewAction(s1, pair.srcFile, pair.tmpLocation)
                 ELSE s1
       IN scanFile(s2, pair, Tail(factories), answers)

\* The pairs scanForActions pushes for the children of a directory.
childPairs(current) ==
  LET l == list(current.srcFile)
  IN [i \in 1..Len(l) |->
        [srcFile |-> l[i],
         tmpLocation |-> relative(current.tmpLocation, basename(l[i]), 0)]]

\* Driver::scanForActions, the work-list loop (lines 405-433)
RECURSIVE scanLoop(_, _, _)
scanLoop(s, fileQueue, answers) ==
  IF fileQueue = <<>> THEN s
  ELSE LET current == fileQueue[Len(fileQueue)]
           rest == SubSeq(fileQueue, 1, Len(fileQueue) - 1)
       IN IF isDirectory(current.srcFile)
          THEN scanLoop(s, rest \o childPairs(current), answers)
          ELSE scanLoop(scanFile(s, current, factoryOrder, answers),
                        rest, answers)

\* Driver::scanForActions
scanForActions(s, srcFile, tmpLocation, answers) ==
  scanLoop(s, <<[srcFile |-> srcFile, tmpLocation |-> tmpLocation]>>, answers)

\* The unblock loop promoting a waiter without releasing it from
\* blockedActionPtrs
RECURSIVE unblock_NoRelease(_, _, _)
unblock_NoRelease(s, id, range) ==
  IF range = <<>> THEN s
  ELSE LET w == Head(range)
           s1 == [s EXCEPT !.missingDependencies[w] = @ \ {id}]
           s2 == IF s1.missingDependencies[w] = {}
                 THEN [s1 EXCEPT !.pendingActions = Append(@, w)]
                 ELSE s1
       IN unblock_NoRelease(s2, id, Tail(range))

\* ActionDriver::returned, the unblock loop over one bucket (lines 303-315)
RECURSIVE unblock(_, _, _)
unblock(s, id, range) ==
  IF range = <<>> THEN s
  ELSE LET w == Head(range)
           s1 == [s EXCEPT !.missingDependencies[w] = @ \ {id}]
           promoted == s1.missingDependencies[w] = {}
                         /\ w \in s1.blockedActionPtrs
           s2 == IF s1.missingDependencies[w] = {}
                 THEN IF w \in s1.blockedActionPtrs
                      THEN [s1 EXCEPT !.blockedActionPtrs = @ \ {w},
                                      !.pendingActions = Append(@, w)]
                      ELSE s1      \* DEBUG_ERROR
                 ELSE s1
           s3 == [s2 EXCEPT !.trace = Append(@, [call |-> "unblock", d |-> w,
                                                 id |-> id,
                                                 promoted |-> promoted])]
       IN unblock(s3, id, Tail(range))

\* The trigger loop that calls the factories and drops the actions they make
RECURSIVE fireTriggers_Drop(_, _, _, _, _)
fireTriggers_Drop(s, id, file, triggerRange, answers) ==
  IF triggerRange = <<>> THEN s
  ELSE LET made == tryMakeAction(s, answers)
           s1 == [s EXCEPT !.ncalls = @ + 1,
                           !.trace = Append(@, [call |-> "tryMakeAction",
                                                factory |-> Head(triggerRange),
                                                id |-> id,
                                                file |-> file,
                                                made |-> made])]
       IN fireTriggers_Drop(s1, id, file, Tail(triggerRange), answers)

\* ActionDriver::returned, the trigger loop of one entity (lines 318-327)
RECURSIVE fireTriggers(_, _, _, _, _)
fireTriggers(s, id, file, triggerRange, answers) ==
  IF triggerRange = <<>> THEN s
  ELSE LET made == tryMakeAction(s, answers)
           s1 == [s EXCEPT !.ncalls = @ + 1,
                           !.trace = Append(@, [call |-> "tryMakeAction",
                                                factory |-> Head(triggerRange),
                                                id |-> id,
                                                file |-> file,
                                                made |-> made])]
           s2 == IF made THEN queueNewAction(s1, file, file) ELSE s1
       IN fireTriggers(s2, id, file, Tail(triggerRange), answers)

\* The loop body that publishes and fires the triggers but leaves the bucket
\* of waiters alone
publish_NoUnblock(s, id, file, answers) ==
  fireTriggers([s EXCEPT !.entityMap[id] = file], id, file, triggers[id],
               answers)

\* ActionDriver::returned, the body of the loop over the entities of one
\* provision (lines 298-327): publish, unblock, erase the bucket, fire.
publish(s, id, file, answers) ==
  LET s1 == [s EXCEPT !.entityMap[id] = file]
      s2 == unblock(s1, id, s1.blockedActions[id])
      s3 == [s2 EXCEPT !.blockedActions[id] = <<>>]
  IN fireTriggers(s3, id, file, triggers[id], answers)

\* ActionDriver::returned, the loop over the entities of one provision
RECURSIVE publishAll(_, _, _, _)
publishAll(s, entities, file, answers) ==
  IF entities = <<>> THEN s
  ELSE publishAll(publish(s, Head(entities), file, answers),
                  Tail(entities), file, answers)

\* ActionDriver::returned, "Register providers" (lines 291-330)
RECURSIVE registerProviders(_, _, _)
registerProviders(s, provs, answers) ==
  IF provs = <<>> THEN s
  ELSE LET file == Head(provs).file
           s1 == [s EXCEPT !.filePtrs = @ \cup {file}]
       IN registerProviders(publishAll(s1, Head(provs).entities, file, answers),
                            Tail(provs), answers)

\* ActionDriver::returned, "Enqueue new actions based on output files"
RECURSIVE scanOutputs(_, _, _)
scanOutputs(s, outs, answers) ==
  IF outs = <<>> THEN s
  ELSE scanOutputs(scanForActions(s, Head(outs), Head(outs), answers),
                   Tail(outs), answers)

\* activeActions.releaseAndShift of the first slot that holds d
releaseAndShift(seq, d) ==
  IF \E i \in 1..Len(seq) : seq[i] = d
  THEN LET i == CHOOSE i \in 1..Len(seq) :
                  seq[i] = d /\ \A j \in 1..(i - 1) : seq[j] # d
       IN SubSeq(seq, 1, i - 1) \o SubSeq(seq, i + 1, Len(seq))
  ELSE seq

\* The insert loop stopping after the first missing dependency
insertBlocked_FirstOnly(s, d) ==
  LET first == CHOOSE id \in s.missingDependencies[d] : TRUE
  IN [s EXCEPT !.blockedActions[first] = Append(@, d)]

\* blockedActions.insert of d under every key of its missingDependencies
insertBlocked(s, d) ==
  [s EXCEPT !.blockedActions =
     [id \in Entities |-> IF id \in s.missingDependencies[d]
                          THEN Append(@[id], d) ELSE @[id]]]

\* ~ActionDriver: the object, its Dashboard::Task and the staged data it
\* owns are gone.
destroy(s, d) ==
  [s EXCEPT !.alive = @ \ {d},
            !.state[d] = "NONE",
            !.dashboardTask[d] = "NONE",
            !.eventGroup[d] = "idle",
            !.provisions[d] = <<>>,
            !.outputs[d] = <<>>,
            !.tmpdir[d] = NoFile]

\* The rollback that does not hand the driver to blockedActionPtrs
rollback_NoAdopt(s, d) ==
  LET s1 == [s EXCEPT !.state[d] = "PENDING",
                      !.eventGroup[d] = "idle",
                      !.provisions[d] = <<>>,
                      !.outputs[d] = <<>>]
  IN insertBlocked(setState(s1, d, "BLOCKED"), d)

\* The rollback that keeps the staged provisions
rollback_KeepProvisions(s, d) ==
  LET s1 == [s EXCEPT !.state[d] = "PENDING",
                      !.eventGroup[d] = "idle",
                      !.outputs[d] = <<>>]
      s2 == setState(s1, d, "BLOCKED")
  IN insertBlocked([s2 EXCEPT !.blockedActionPtrs = @ \cup {d}], d)

\* The rollback that does not reset the state to PENDING
rollback_KeepState(s, d) ==
  LET s1 == [s EXCEPT !.eventGroup[d] = "idle",
                      !.provisions[d] = <<>>,
                      !.outputs[d] = <<>>]
      s2 == setState(s1, d, "BLOCKED")
  IN insertBlocked([s2 EXCEPT !.blockedActionPtrs = @ \cup {d}], d)

\* ActionDriver::returned, the branch of missing dependencies (lines 271-286)
rollback(s, d) ==
  LET s1 == [s EXCEPT !.state[d] = "PENDING",
                      !.eventGroup[d] = "idle",
                      !.provisions[d] = <<>>,
                      !.outputs[d] = <<>>]
      s2 == setState(s1, d, "BLOCKED")
  IN insertBlocked([s2 EXCEPT !.blockedActionPtrs = @ \cup {d}], d)

\* ActionDriver::returned, the branch of SUCCEEDED and PASSED (lines 288-335)
commit(s, d, answers) ==
  LET s1 == setState(s, d, IF s.state[d] = "PASSED" THEN "PASSED"
                                                     ELSE "SUCCESS")
      s2 == registerProviders(s1, s1.provisions[d], answers)
  IN scanOutputs(s2, s2.outputs[d], answers)

\* returned() that commits whatever the reported outcome is
returned_CommitAnyOutcome(s, d, answers) ==
  LET s1 == [s EXCEPT !.activeActions = releaseAndShift(@, d)]
  IN IF s1.missingDependencies[d] # {}
     THEN rollback(s1, d)
     ELSE destroy(commit(s1, d, answers), d)

\* returned() that tests the outcome before the missing dependencies
returned_OutcomeFirst(s, d, answers) ==
  LET s1 == [s EXCEPT !.activeActions = releaseAndShift(@, d)]
  IN IF s1.state[d] \in {"SUCCEEDED", "PASSED"}
     THEN destroy(commit(s1, d, answers), d)
     ELSE IF s1.state[d] = "FAILED"
          THEN destroy(setState(s1, d, "FAILED"), d)
          ELSE rollback(s1, d)

\* returned() whose failure branch also errors out the blocked tasks
returned_FailDependents(s, d, answers) ==
  LET s1 == [s EXCEPT !.activeActions = releaseAndShift(@, d)]
  IN IF s1.missingDependencies[d] # {}
     THEN rollback(s1, d)
     ELSE IF s1.state[d] \in {"SUCCEEDED", "PASSED"}
          THEN destroy(commit(s1, d, answers), d)
          ELSE destroy(setState([s1 EXCEPT !.dashboardTask =
                                   [e \in Drivers |->
                                      IF e \in s1.blockedActionPtrs
                                      THEN "FAILED" ELSE @[e]]],
                                d, "FAILED"), d)

\* ActionDriver::returned.  `self` owns the driver once it is released from
\* activeActions; a driver `self` still owns at the end is destroyed.
returned(s, d, answers) ==
  LET s1 == [s EXCEPT !.activeActions = releaseAndShift(@, d)]
  IN IF s1.missingDependencies[d] # {}
     THEN rollback(s1, d)
     ELSE IF s1.state[d] \in {"SUCCEEDED", "PASSED"}
          THEN destroy(commit(s1, d, answers), d)
          ELSE destroy(setState(s1, d, "FAILED"), d)

\* Driver::addActionFactory: the triggers it inserts for one entity
RECURSIVE insertTriggers(_, _, _)
insertTriggers(trig, triggerEntities, factory) ==
  IF triggerEntities = <<>> THEN trig
  ELSE insertTriggers([trig EXCEPT ![Head(triggerEntities)] = Append(@, factory)],
                      Tail(triggerEntities), factory)

\* ----------------------------------------------------------- handlers

Init ==
  /\ started = FALSE
  /\ destroyed = FALSE
  /\ maxConcurrentActions \in 1..MaxConcurrency
  /\ actionFactories = {}
  /\ triggers = [id \in Entities |-> <<>>]
  /\ entityMap = [id \in Entities |-> NoFile]
  /\ filePtrs = {}
  /\ activeActions = <<>>
  /\ pendingActions = <<>>
  /\ blockedActions = [id \in Entities |-> <<>>]
  /\ blockedActionPtrs = {}
  /\ numCreated = 0
  /\ alive = {}
  /\ state = [d \in Drivers |-> "NONE"]
  /\ missingDependencies = [d \in Drivers |-> {}]
  /\ provisions = [d \in Drivers |-> <<>>]
  /\ outputs = [d \in Drivers |-> <<>>]
  /\ tmpdir = [d \in Drivers |-> NoFile]
  /\ dashboardTask = [d \in Drivers |-> "NONE"]
  /\ eventGroup = [d \in Drivers |-> "idle"]
  /\ doneCallbacks = [d \in Drivers |-> 0]
  /\ trace = <<>>

\* What only the Driver's own methods (constructor, addActionFactory, start,
\* destructor) change.
Config == <<started, destroyed, maxConcurrentActions, actionFactories, triggers>>

\* Driver::addActionFactory, called before Driver::start, once per factory
AddActionFactory(factory) ==
  /\ ~destroyed
  /\ ~started
  /\ factory \notin actionFactories
  /\ actionFactories' = actionFactories \cup {factory}
  /\ triggers' = insertTriggers(triggers, enumerateTriggerEntities(factory), factory)
  /\ trace' = <<>>
  /\ UNCHANGED <<started, destroyed, maxConcurrentActions, entityMap, filePtrs,
                 activeActions, pendingActions, blockedActions,
                 blockedActionPtrs, numCreated, alive, state,
                 missingDependencies, provisions, outputs, tmpdir,
                 dashboardTask, eventGroup, doneCallbacks>>

\* The inputs of a handler that ends in startSomeActions: `answers`, the
\* tryMakeAction calls (numbered as the handler makes them) that make an
\* action, and `throwers`, the drivers whose start() throws.  The calls made
\* and the drivers started do not depend on the inputs, so they are read off
\* the run in which no factory makes an action and no start() throws.
Answers(quiet) == SUBSET (1..quiet.ncalls)
Throwers(quiet) ==
  SUBSET {quiet.pendingActions[i] : i \in 1..Len(quiet.pendingActions)}

\* Driver::start
Start ==
  /\ ~destroyed
  /\ ~started
  /\ started' = TRUE
  /\ \E answers \in Answers(scanForActions(Cur, src, tmp, {})) :
       LET s1 == scanForActions(Cur, src, tmp, answers)
       IN \E throwers \in Throwers(s1) : Store(startSomeActions(s1, throwers))
  /\ UNCHANGED <<destroyed, maxConcurrentActions, actionFactories, triggers>>

\* StartCallback::run: the action's start() runs; from here on its code runs
\* under the event group and calls the BuildContext.
StartCallbackRun(d) ==
  /\ eventGroup[d] = "start_queued"
  /\ eventGroup' = [eventGroup EXCEPT ![d] = "running"]
  /\ trace' = <<>>
  /\ UNCHANGED <<started, destroyed, maxConcurrentActions, actionFactories,
                 triggers,
                 entityMap, filePtrs, activeActions, pendingActions,
                 blockedActions, blockedActionPtrs, numCreated, alive, state,
                 missingDependencies, provisions, outputs, tmpdir,
                 dashboardTask, doneCallbacks>>

\* The action's code runs (eventGroup not cancelled) and calls the BuildContext.
Calling(d) == d \in alive /\ eventGroup[d] = "running"

FindProvider(d, id) ==
  /\ Calling(d)
  /\ Store(routeException(findProvider(Cur, d, id), d))
  /\ UNCHANGED Config

FindOptionalProvider(d, id) ==
  /\ Calling(d)
  /\ Store(routeException(IF ensureRunning(Cur, d) THEN Cur ELSE Throw(Cur), d))
  /\ UNCHANGED Config

Provide(d, path, entities) ==
  /\ Calling(d)
  /\ state[d] = "RUNNING" => Len(provisions[d]) < MaxProvisions
  /\ Store(routeException(provide(Cur, d, File(path, 0), entities), d))
  /\ UNCHANGED Config

Log(d) ==
  /\ Calling(d)
  /\ Store(routeException(log(Cur, d), d))
  /\ UNCHANGED Config

NewOutput(d) ==
  /\ Calling(d)
  /\ state[d] = "RUNNING" => Len(outputs[d]) < MaxOutputs
  /\ Store(routeException(newOutput(Cur, d, Basename), d))
  /\ UNCHANGED Config

Success(d) ==
  /\ Calling(d)
  /\ Store(routeException(success(Cur, d), d))
  /\ UNCHANGED Config

Passed(d) ==
  /\ Calling(d)
  /\ Store(routeException(passed(Cur, d), d))
  /\ UNCHANGED Config

Failed(d) ==
  /\ Calling(d)
  /\ Store(routeException(failed(Cur, d), d))
  /\ UNCHANGED Config

\* The action's code throws an exception of its own.
ThrewException(d) ==
  /\ Calling(d)
  /\ Store(threwException(Cur, d))
  /\ UNCHANGED Config

ThrewUnknownException(d) ==
  /\ Calling(d)
  /\ Store(threwUnknownException(Cur, d))
  /\ UNCHANGED Config

\* DoneCallback::run
DoneCallbackRun(d) ==
  /\ d \in alive
  /\ doneCallbacks[d] > 0
  /\ LET s0 == [Cur EXCEPT !.doneCallbacks[d] = @ - 1]
     IN \E answers \in Answers(returned(s0, d, {})) :
          LET s1 == returned(s0, d, answers)
          IN \E throwers \in Throwers(s1) :
               Store(startSomeActions(s1, throwers))
  /\ UNCHANGED Config

\* The orders in which an iteration over blockedActionPtrs (a map keyed by
\* the drivers' addresses) can visit the drivers.
IterationOrders(ptrs) ==
  {order \in [1..Cardinality(ptrs) -> ptrs] :
     \A i, j \in 1..Cardinality(ptrs) : order[i] = order[j] => i = j}

\* The loop that errors out the first blocked task only
errorOutBlocked_FirstOnly(s, order) ==
  IF order = <<>> THEN s ELSE setState(s, Head(order), "FAILED")

\* Driver::~Driver, the body: "Error out all blocked tasks" (lines 350-353)
RECURSIVE errorOutBlocked(_, _)
errorOutBlocked(s, order) ==
  IF order = <<>> THEN s
  ELSE errorOutBlocked(setState(s, Head(order), "FAILED"), Tail(order))

\* Driver::~Driver, after the body: the members are destroyed, and with them
\* every ActionDriver (its EventGroup and queued callbacks are cancelled),
\* every Dashboard::Task and every File the driver owns.
destroyMembers(s) ==
  [s EXCEPT !.entityMap = [id \in Entities |-> NoFile],
            !.filePtrs = {},
            !.activeActions = <<>>,
            !.pendingActions = <<>>,
            !.blockedActions = [id \in Entities |-> <<>>],
            !.blockedActionPtrs = {},
            !.alive = {},
            !.state = [d \in Drivers |-> "NONE"],
            !.missingDependencies = [d \in Drivers |-> {}],
            !.provisions = [d \in Drivers |-> <<>>],
            !.outputs = [d \in Drivers |-> <<>>],
            !.tmpdir = [d \in Drivers |-> NoFile],
            !.dashboardTask = [d \in Drivers |-> "NONE"],
            !.eventGroup = [d \in Drivers |-> "idle"],
            !.doneCallbacks = [d \in Drivers |-> 0]]

\* Driver::~Driver: the owner destroys the Driver between two callbacks.
Shutdown ==
  /\ ~destroyed
  /\ destroyed' = TRUE
  /\ \E order \in IterationOrders(blockedActionPtrs) :
       Store(destroyMembers(errorOutBlocked(Cur, order)))
  /\ UNCHANGED <<started, maxConcurrentActions, actionFactories, triggers>>

Next ==
  \/ \E f \in Factories : AddActionFactory(f)
  \/ Start
  \/ \E d \in Drivers : StartCallbackRun(d)
  \/ \E d \in Drivers, id \in Entities : FindProvider(d, id)
  \/ \E d \in Drivers, id \in Entities : FindOptionalProvider(d, id)
  \/ \E d \in Drivers, path \in Paths, entities \in EntityLists :
       Provide(d, path, entities)
  \/ \E d \in Drivers : Log(d)
  \/ \E d \in Drivers : NewOutput(d)
  \/ \E d \in Drivers : Success(d)
  \/ \E d \in Drivers : Passed(d)
  \/ \E d \in Drivers : Failed(d)
  \/ \E d \in Drivers : ThrewException(d)
  \/ \E d \in Drivers : ThrewUnknownException(d)
  \/ \E d \in Drivers : DoneCallbackRun(d)
  \/ Shutdown

Spec == Init /\ [][Next]_vars

\* ------------------------------------------------------------- claims

Range(seq) == {seq[i] : i \in 1..Len(seq)}
Occurrences(seq, d) == Cardinality({i \in 1..Len(seq) : seq[i] = d})
InPending(d) == d \in Range(pendingActions)
InActive(d) == d \in Range(activeActions)
InBlocked(d) == d \in blockedActionPtrs
Outcomes == {"SUCCEEDED", "PASSED", "FAILED"}

\* C1: every ActionDriver that was created and is not destroyed is held by
\* exactly one of pendingActions, activeActions and blockedActionPtrs, once;
\* no collection holds a driver that does not exist.
C1_ExactlyOneOwner ==
  /\ \A d \in alive :
       Occurrences(pendingActions, d) + Occurrences(activeActions, d)
         + (IF InBlocked(d) THEN 1 ELSE 0) = 1
  /\ Range(pendingActions) \cup Range(activeActions) \cup blockedActionPtrs
       \subseteq alive

\* C1 witness: all three collections hold a driver at once.
C1_Witness ==
  /\ pendingActions # <<>>
  /\ activeActions # <<>>
  /\ blockedActionPtrs # {}

\* C2: activeActions never holds more than maxConcurrentActions drivers.
C2_ActiveWithinCap == Len(activeActions) <= maxConcurrentActions

\* C2 witness: the cap of 2 is reached by actions that are running and have
\* not completed, while another driver waits in pendingActions.
C2_Witness ==
  /\ maxConcurrentActions = 2
  /\ Len(activeActions) = 2
  /\ pendingActions # <<>>
  /\ \A d \in Range(activeActions) :
       state[d] = "RUNNING" /\ eventGroup[d] = "running"

\* C3 as claimed: a driver is RUNNING exactly when activeActions holds it.
C3_RunningIffActive ==
  \A d \in alive : state[d] = "RUNNING" <=> InActive(d)

\* C3 amended: a RUNNING driver is in activeActions; a driver in
\* activeActions is RUNNING until it reports its outcome, and from then until
\* its DoneCallback runs it is SUCCEEDED, PASSED or FAILED with exactly one
\* DoneCallback queued.
C3_RunningOrReported ==
  \A d \in alive :
    /\ state[d] = "RUNNING" => InActive(d) /\ doneCallbacks[d] = 0
    /\ InActive(d) => state[d] \in {"RUNNING"} \cup Outcomes
    /\ state[d] \in Outcomes => InActive(d) /\ doneCallbacks[d] = 1

\* C3 witness: an action has called success() and its DoneCallback is queued.
C3_Witness ==
  \E d \in alive :
    InActive(d) /\ state[d] = "SUCCEEDED" /\ doneCallbacks[d] = 1

\* C4: a driver is PENDING exactly when pendingActions or blockedActionPtrs
\* holds it.
C4_PendingIffQueuedOrBlocked ==
  \A d \in alive : state[d] = "PENDING" <=> (InPending(d) \/ InBlocked(d))

\* C4 witness: a driver promoted from blocked (its task still shows BLOCKED)
\* waits in pendingActions, PENDING, while another driver holds the slot.
C4_Witness ==
  \E d \in alive :
    /\ InPending(d) /\ dashboardTask[d] = "BLOCKED" /\ state[d] = "PENDING"
    /\ \E e \in alive \ {d} : InActive(e) /\ state[e] = "RUNNING"

\* C5: every blocked driver has missing dependencies, and the bucket of
\* blockedActions of each of them holds the driver.
C5_BlockedAreIndexed ==
  \A d \in blockedActionPtrs :
    /\ missingDependencies[d] # {}
    /\ \A id \in missingDependencies[d] : d \in Range(blockedActions[id])

\* C5 witness: a partial unblock: the last handler took a waiter out of one
\* bucket and the waiter stays blocked on another entity.
C5_Witness ==
  \E i \in 1..Len(trace) :
    /\ trace[i].call = "unblock"
    /\ ~trace[i].promoted
    /\ trace[i].d \in blockedActionPtrs
    /\ missingDependencies[trace[i].d] # {}

\* The step is the DoneCallback of driver d: it alone takes a DoneCallback
\* of d off the EventManager's queue.
Finalizes(d) ==
  /\ d \in alive /\ doneCallbacks[d] > 0
  /\ doneCallbacks'[d] = doneCallbacks[d] - 1
  /\ ~destroyed'

StagedFiles(d) == {provisions[d][i].file : i \in 1..Len(provisions[d])}
Made(tr) == {i \in 1..Len(tr) : tr[i].call \in {"tryMakeAction", "beginTask"}}

\* C6: entityMap and filePtrs change only in the DoneCallback of a driver that
\* is SUCCEEDED or PASSED with no missing dependency, and then every new
\* entry is a file of that driver's provisions under an entity of the same
\* provision; no entry is removed while the Driver exists, and no file staged
\* by a driver that still exists (running, pending again or blocked) is in
\* either.
C6_PublishedByCommit ==
  /\ [](\A f \in (filePtrs \cup {entityMap[id] : id \in Entities}) \ {NoFile} :
          f.by \notin alive)
  /\ [][\/ destroyed'
        \/ /\ \A id \in Entities : entityMap[id] # NoFile => entityMap'[id] # NoFile
           /\ filePtrs \subseteq filePtrs'
           /\ (entityMap' # entityMap \/ filePtrs' # filePtrs) =>
                \E d \in alive :
                  /\ Finalizes(d)
                  /\ d \notin alive'
                  /\ state[d] \in {"SUCCEEDED", "PASSED"}
                  /\ missingDependencies[d] = {}
                  /\ filePtrs' \ filePtrs \subseteq StagedFiles(d)
                  /\ \A id \in Entities :
                       entityMap'[id] # entityMap[id] =>
                         \E i \in 1..Len(provisions[d]) :
                           /\ provisions[d][i].file = entityMap'[id]
                           /\ id \in Range(provisions[d][i].entities)
                           /\ entityMap'[id] \in filePtrs']_vars

\* C6 witness: an entity is published while a FAILED action that staged a
\* provision of the same entity waits for its DoneCallback.
C6_Witness ==
  /\ entityMap["HDR"] # NoFile
  /\ \E d \in alive :
       /\ state[d] = "FAILED" /\ missingDependencies[d] = {}
       /\ \E i \in 1..Len(provisions[d]) :
            "HDR" \in Range(provisions[d][i].entities)

\* C7: the DoneCallback of a driver with missing dependencies leaves entityMap
\* and filePtrs unchanged, calls no factory and creates no driver, and leaves
\* the driver's provisions and outputs empty.
C7_RollbackIsTotal ==
  [][\A d \in Drivers :
       Finalizes(d) /\ missingDependencies[d] # {} =>
         /\ entityMap' = entityMap
         /\ filePtrs' = filePtrs
         /\ Made(trace') = {}
         /\ numCreated' = numCreated
         /\ provisions'[d] = <<>>
         /\ outputs'[d] = <<>>]_vars

\* C7 witness: a driver with a missing dependency, a staged provision and an
\* output has its DoneCallback queued.
C7_Witness ==
  \E d \in alive :
    /\ doneCallbacks[d] = 1
    /\ missingDependencies[d] # {}
    /\ provisions[d] # <<>>
    /\ outputs[d] # <<>>

\* C8: the DoneCallback of a FAILED driver with missing dependencies rolls it
\* back: the driver is kept, blocked, PENDING, shown BLOCKED, and is in the
\* bucket of each missing entity.
C8_FailedWithMissingIsBlocked ==
  [][\A d \in Drivers :
       Finalizes(d) /\ state[d] = "FAILED" /\ missingDependencies[d] # {} =>
         /\ d \in alive'
         /\ d \in blockedActionPtrs'
         /\ state'[d] = "PENDING"
         /\ dashboardTask'[d] = "BLOCKED"
         /\ \A i \in 1..Len(trace') :
              trace'[i].call = "setState" /\ trace'[i].d = d =>
                trace'[i].state = "BLOCKED"
         /\ missingDependencies'[d] = missingDependencies[d]
         /\ \A id \in missingDependencies[d] :
              d \in Range(blockedActions'[id])]_vars

\* C8 witness: the last handler set a task to BLOCKED and the driver is in
\* blockedActionPtrs (a rollback always finds the state FAILED).
C8_Witness ==
  \E i \in 1..Len(trace) :
    /\ trace[i].call = "setState"
    /\ trace[i].state = "BLOCKED"
    /\ trace[i].d \in blockedActionPtrs
    /\ state[trace[i].d] = "PENDING"

\* C9: success() or passed() of a RUNNING driver with missing dependencies
\* leaves the driver FAILED with one more DoneCallback queued.
C9_SuccessWithMissingFails ==
  [][\A d \in Drivers :
       (/\ Calling(d)
        /\ state[d] = "RUNNING"
        /\ missingDependencies[d] # {}
        /\ (Success(d) \/ Passed(d))) =>
         /\ state'[d] = "FAILED"
         /\ doneCallbacks'[d] = doneCallbacks[d] + 1
         /\ InActive(d)']_vars

\* C9 witness: a running action with a missing dependency that has staged
\* a provision, as one that is about to report success.
C9_Witness ==
  \E d \in alive :
    /\ Calling(d)
    /\ state[d] = "RUNNING"
    /\ missingDependencies[d] # {}
    /\ provisions[d] # <<>>

BuildContextCall(d) ==
  \/ \E id \in Entities : FindProvider(d, id)
  \/ \E id \in Entities : FindOptionalProvider(d, id)
  \/ \E path \in Paths, entities \in EntityLists : Provide(d, path, entities)
  \/ Log(d)
  \/ NewOutput(d)
  \/ Success(d)
  \/ Passed(d)
  \/ Failed(d)

\* C10: a BuildContext call on a driver that is not RUNNING changes no
\* driver's state, missing dependencies, provisions or outputs and queues no
\* DoneCallback; a driver never has two DoneCallbacks queued.
C10_NotRunningRejected ==
  /\ [](\A d \in Drivers : doneCallbacks[d] <= 1)
  /\ [][\A d \in Drivers :
          Calling(d) /\ state[d] # "RUNNING" /\ BuildContextCall(d) =>
            UNCHANGED <<state, missingDependencies, provisions, outputs,
                        doneCallbacks, entityMap>>]_vars

\* C10 witness: an action that has called failed() can still run and call
\* the BuildContext before its DoneCallback runs.
C10_Witness ==
  \E d \in alive :
    Calling(d) /\ state[d] = "FAILED" /\ doneCallbacks[d] = 1

\* The step is the DoneCallback of driver d and commits: d is SUCCEEDED or
\* PASSED with no missing dependency.
Commits(d) ==
  /\ Finalizes(d)
  /\ state[d] \in {"SUCCEEDED", "PASSED"}
  /\ missingDependencies[d] = {}

\* The entities a commit of d publishes.
Published(d) ==
  UNION {Range(provisions[d][i].entities) : i \in 1..Len(provisions[d])}

\* A promoted driver waits in pendingActions: its task shows BLOCKED until
\* start() sets it to RUNNING.
PromotedWaiting(w) == InPending(w) /\ dashboardTask[w] = "BLOCKED"

\* The drivers the step started: start() set their task to RUNNING.
StartedBy(tr) ==
  {tr[i].d : i \in {j \in 1..Len(tr) :
                      tr[j].call = "setState" /\ tr[j].state = "RUNNING"}}

FailureQueued(d) ==
  /\ d \in alive /\ doneCallbacks[d] > 0
  /\ state[d] = "FAILED" /\ missingDependencies[d] = {}

\* C12: returned() of a FAILED driver with no missing dependency publishes
\* nothing, calls no factory (whatever the factories would answer), and
\* leaves every other driver where it is, with its state, its missing
\* dependencies and its task; after the whole DoneCallback the blocked
\* drivers are still blocked, PENDING and shown BLOCKED, in the same buckets,
\* and the only other drivers touched are those startSomeActions started.
C12_FailureDoesNotCascade ==
  /\ [](\A d \in Drivers :
          FailureQueued(d) =>
            LET s == returned(Cur, d, 1..4)
            IN /\ s.entityMap = entityMap
               /\ s.filePtrs = filePtrs
               /\ s.ncalls = 0
               /\ s.numCreated = numCreated
               /\ s.alive = alive \ {d}
               /\ s.activeActions = releaseAndShift(activeActions, d)
               /\ s.pendingActions = pendingActions
               /\ s.blockedActionPtrs = blockedActionPtrs
               /\ s.blockedActions = blockedActions
               /\ s.missingDependencies = missingDependencies
               /\ \A e \in Drivers \ {d} :
                    /\ s.state[e] = state[e]
                    /\ s.dashboardTask[e] = dashboardTask[e]
                    /\ s.eventGroup[e] = eventGroup[e])
  /\ [][\A d \in Drivers :
          FailureQueued(d) /\ Finalizes(d) =>
            /\ entityMap' = entityMap
            /\ filePtrs' = filePtrs
            /\ Made(trace') = {}
            /\ numCreated' = numCreated
            /\ blockedActionPtrs' = blockedActionPtrs
            /\ blockedActions' = blockedActions
            /\ missingDependencies' = missingDependencies
            /\ \A e \in blockedActionPtrs :
                 state'[e] = "PENDING" /\ dashboardTask'[e] = "BLOCKED"
            /\ \A e \in alive \ ({d} \cup StartedBy(trace')) :
                 /\ state'[e] = state[e]
                 /\ InPending(e)' = InPending(e)
                 /\ InActive(e)' = InActive(e)]_vars

\* C12 witness: the last handler was the DoneCallback of a failed driver (it
\* set a task to FAILED and the task is gone), and a driver blocked on HDR is
\* still blocked, shown BLOCKED, with HDR unpublished.
C12_Witness ==
  /\ ~destroyed
  /\ \E i \in 1..Len(trace) :
       /\ trace[i].call = "setState" /\ trace[i].state = "FAILED"
       /\ trace[i].d \notin alive
  /\ entityMap["HDR"] = NoFile
  /\ \E w \in blockedActionPtrs :
       /\ "HDR" \in missingDependencies[w]
       /\ dashboardTask[w] = "BLOCKED"

\* The setState calls of a handler on the task of driver d, in order.
TaskStates(tr, d) ==
  LET calls == SelectSeq(tr, LAMBDA c : c.call = "setState" /\ c.d = d)
  IN [i \in 1..Len(calls) |-> calls[i].state]

\* C13: when the Driver is destroyed, the task of every driver that is in
\* blockedActionPtrs at that moment, shown BLOCKED until then, is set to
\* FAILED, and that is the last state the task is given; no other task is
\* given a state.
C13_ShutdownFailsBlocked ==
  [][~destroyed /\ destroyed' =>
       \A d \in Drivers :
         /\ d \in blockedActionPtrs =>
              dashboardTask[d] = "BLOCKED" /\ TaskStates(trace', d) = <<"FAILED">>
         /\ d \notin blockedActionPtrs => TaskStates(trace', d) = <<>>]_vars

\* C13 witness: the Driver was destroyed while two drivers were blocked.
C13_Witness ==
  /\ destroyed
  /\ \E d, e \in Drivers :
       d # e /\ TaskStates(trace, d) = <<"FAILED">>
             /\ TaskStates(trace, e) = <<"FAILED">>

\* C14: in the calls of one DoneCallback, every waiter taken out of a bucket
\* of blockedActions comes before every tryMakeAction(id, file) of a trigger
\* and before every driver a trigger enqueues.
C14_UnblocksBeforeTriggers ==
  \A i, j \in 1..Len(trace) :
    (/\ trace[i].call = "tryMakeAction"
     /\ trace[i].id # ""
     /\ trace[j].call = "unblock") => j < i

\* C14: what the code does instead: the waiters of an entity come before the
\* triggers of that same entity and of the entities after it in the commit.
C14_UnblockBeforeOwnTriggers ==
  \A i, j \in 1..Len(trace) :
    (/\ trace[i].call = "tryMakeAction"
     /\ trace[i].id # ""
     /\ trace[j].call = "unblock"
     /\ trace[j].id = trace[i].id) => j < i

\* C14 case: one commit published LIB, whose trigger made an action, and
\* then HDR, whose waiter it promoted.
C14_Witness ==
  \E i, j \in 1..Len(trace) :
    /\ trace[i].call = "tryMakeAction" /\ trace[i].id = "LIB" /\ trace[i].made
    /\ trace[j].call = "unblock" /\ trace[j].id = "HDR" /\ trace[j].promoted

\* C15: between handlers, either activeActions holds exactly
\* maxConcurrentActions drivers or pendingActions is empty: Driver::start
\* and every DoneCallback end in startSomeActions, and no other handler
\* touches either collection.
C15_WorkConserving ==
  /\ Len(activeActions) = maxConcurrentActions \/ pendingActions = <<>>
  /\ ~started => activeActions = <<>>

\* C15 witness: a DoneCallback vacated a slot and refilled it from
\* pendingActions (the driver it started is active), and a driver still waits.
C15_Witness ==
  /\ pendingActions # <<>>
  /\ Len(activeActions) = maxConcurrentActions
  /\ \E i, j \in 1..Len(trace) :
       /\ i < j
       /\ trace[i].call = "setState" /\ trace[i].d \notin alive
       /\ trace[j].call = "setState" /\ trace[j].state = "RUNNING"
       /\ InActive(trace[j].d)

\* The drivers a handler appended to pendingActions, in order: those
\* queueNewAction created and those the unblock loop promoted.
EnqueuedSeq(tr) ==
  LET calls == SelectSeq(tr, LAMBDA c :
                 \/ c.call = "beginTask"
                 \/ c.call = "unblock" /\ c.promoted)
  IN [i \in 1..Len(calls) |-> calls[i].d]

\* The drivers a handler started, in order.
StartedSeq(tr) ==
  LET calls == SelectSeq(tr, LAMBDA c :
                 c.call = "setState" /\ c.state = "RUNNING")
  IN [i \in 1..Len(calls) |-> calls[i].d]

Reverse(seq) == [i \in 1..Len(seq) |-> seq[Len(seq) + 1 - i]]

\* C16: pendingActions is a stack.  In every handler the queue grows at the
\* back by the drivers enqueued (scan, trigger, promotion) and the drivers
\* started are taken from the back, last enqueued first: the queue left
\* followed by the started drivers, last started first, is the old queue
\* followed by the enqueued drivers.  So of two drivers pending together the
\* earlier one is not started while the later one waits.
C16_PendingIsLifo ==
  /\ [][~destroyed' =>
          pendingActions' \o Reverse(StartedSeq(trace'))
            = pendingActions \o EnqueuedSeq(trace')]_vars
  /\ [][\A i, j \in 1..Len(pendingActions) :
          (i < j /\ ~destroyed' /\ InActive(pendingActions[i])') =>
            InActive(pendingActions[j])']_vars

\* C16 witness: a DoneCallback promoted a driver behind an older pending
\* driver and started the promoted one; the older one still waits.
C16_Witness ==
  /\ pendingActions # <<>>
  /\ \E i, j \in 1..Len(trace) :
       /\ i < j
       /\ trace[i].call = "unblock" /\ trace[i].promoted
       /\ trace[j].call = "setState" /\ trace[j].state = "RUNNING"
       /\ trace[j].d = trace[i].d

\* The drivers the Driver's three collections hold.
Owned ==
  Range(pendingActions) \cup Range(activeActions) \cup blockedActionPtrs

\* The drivers a handler promoted from blocked, and those it created.
PromotedBy(tr) ==
  {tr[i].d : i \in {j \in 1..Len(tr) : tr[j].call = "unblock" /\ tr[j].promoted}}
CreatedBy(tr) ==
  {tr[i].d : i \in {j \in 1..Len(tr) : tr[j].call = "beginTask"}}

\* C17 as claimed: after the DoneCallback of d the three collections hold
\* what they held before, minus d, plus the drivers promoted from blocked.
C17_UnionMinusFinalized ==
  [][\A d \in Drivers :
       Finalizes(d) => Owned' = (Owned \ {d}) \cup PromotedBy(trace')]_vars

\* C17 amended: after the DoneCallback of d the three collections hold what
\* they held before, minus d unless d was rolled back (it is then blocked),
\* plus the drivers the commit created from triggers and output scans;
\* promoted drivers were in the collections before and stay in them.
C17_UnionAccounting ==
  [][\A d \in Drivers :
       Finalizes(d) =>
         /\ d \in Owned
         /\ Owned' = ((Owned \ {d})
                        \cup (IF missingDependencies[d] # {} THEN {d} ELSE {}))
                        \cup CreatedBy(trace')
         /\ CreatedBy(trace') \cap Owned = {}
         /\ PromotedBy(trace') \subseteq (blockedActionPtrs \ {d}) \cap Owned'
         /\ missingDependencies[d] # {} =>
              d \in blockedActionPtrs' /\ CreatedBy(trace') = {}
         /\ state[d] = "FAILED" => CreatedBy(trace') = {}]_vars

\* C17 witness: the last handler committed a driver (its task was set to
\* SUCCESS or PASSED and is gone) and the scan of its output made a driver,
\* which the collections now hold.
C17_Witness ==
  \E i, j, k \in 1..Len(trace) :
    /\ trace[i].call = "setState" /\ trace[i].state \in {"SUCCESS", "PASSED"}
    /\ trace[i].d \notin alive
    /\ trace[j].call = "tryMakeAction" /\ trace[j].id = "" /\ trace[j].made
    /\ trace[k].call = "beginTask" /\ trace[k].file = trace[j].file
    /\ trace[k].d \in Owned

\* Driver d is about to commit: its DoneCallback is queued and will take the
\* branch of SUCCEEDED and PASSED.
CommitQueued(d) ==
  /\ d \in alive /\ doneCallbacks[d] > 0
  /\ state[d] \in {"SUCCEEDED", "PASSED"} /\ missingDependencies[d] = {}

\* The driver's data when the commit of d reaches the k-th entity of its
\* i-th provision: the earlier provisions and entities are published.
BeforePublish(d, i, k, answers) ==
  LET p == provisions[d][i]
      s1 == registerProviders(Cur, SubSeq(provisions[d], 1, i - 1), answers)
  IN publishAll(s1, SubSeq(p.entities, 1, k - 1), p.file, answers)

\* The k-th entity of the i-th provision of d is already in entityMap with
\* a file of the same path when the commit of d reaches it.
Republishes(d, i, k, answers) ==
  LET p == provisions[d][i]
      before == BeforePublish(d, i, k, answers).entityMap[p.entities[k]]
  IN before # NoFile /\ before.path = p.file.path

\* C18: when a commit publishes an entity that is already in entityMap with
\* a file of the same path, that publish (lines 298-327) leaves the path
\* entityMap gives for the entity, pendingActions, blockedActionPtrs and the
\* drivers created as they are, whatever the factories answer.
C18_PublishIdempotent ==
  \A d \in Drivers :
    CommitQueued(d) =>
      \A answers \in Answers(commit(Cur, d, {})) :
        \A i \in 1..Len(provisions[d]) :
          \A k \in 1..Len(provisions[d][i].entities) :
            Republishes(d, i, k, answers) =>
              LET p == provisions[d][i]
                  s == BeforePublish(d, i, k, answers)
                  t == publish(s, p.entities[k], p.file, answers)
              IN /\ t.entityMap[p.entities[k]].path = s.entityMap[p.entities[k]].path
                 /\ t.pendingActions = s.pendingActions
                 /\ t.blockedActionPtrs = s.blockedActionPtrs
                 /\ t.numCreated = s.numCreated

\* C18 case: LIB is published with x.o, and a driver that staged x.o for
\* LIB has succeeded and waits for its DoneCallback.
C18_Witness ==
  \E d \in Drivers :
    /\ CommitQueued(d)
    /\ entityMap["LIB"] # NoFile
    /\ Len(provisions[d]) > 0
    /\ Head(provisions[d][1].entities) = "LIB"
    /\ Republishes(d, 1, 1, {})
    /\ numCreated < MaxDrivers

\* The calls tryMakeAction(id, file) a handler made on a factory: the
\* trigger form of the call, with an entity.
TriggerCalls(tr, factory, id, file) ==
  {j \in 1..Len(tr) : /\ tr[j].call = "tryMakeAction"
                       /\ tr[j].factory = factory
                       /\ tr[j].id = id
                       /\ tr[j].file = file}

\* The places <<i, k>> where the provisions of d provide id by file.
Publications(d, id, file) ==
  UNION {{<<i, k>> : k \in {n \in 1..Len(provisions[d][i].entities) :
                              /\ provisions[d][i].entities[n] = id
                              /\ provisions[d][i].file = file}} :
         i \in 1..Len(provisions[d])}

\* C19: in a commit, for every entity id and file f, each factory is called
\* with (id, f) once per trigger it registered on id and per provision of id
\* by f in the commit, so a factory with no trigger on id is not called; no
\* other handler makes such a call.  Every action a factory makes on such a
\* call becomes at once a new driver, PENDING at the back of pendingActions
\* (or already started from there by the startSomeActions that ends the
\* handler), with f as source file and as tmp location.
C19_TriggerFanOut ==
  /\ [][\A d \in Drivers :
          Commits(d) =>
            \A factory \in Factories, id \in Entities :
              \A f \in StagedFiles(d) \cup
                       {trace'[j].file : j \in {n \in 1..Len(trace') :
                                                  trace'[n].call = "tryMakeAction"}} :
                Cardinality(TriggerCalls(trace', factory, id, f))
                  = Cardinality(Publications(d, id, f))
                      * Occurrences(triggers[id], factory)]_vars
  /\ [][\A j \in 1..Len(trace') :
          (trace'[j].call = "tryMakeAction" /\ trace'[j].id # "") =>
            /\ \E d \in Drivers : Commits(d)
            /\ trace'[j].factory \in actionFactories
            /\ IF trace'[j].made
               THEN /\ j < Len(trace')
                    /\ trace'[j + 1].call = "beginTask"
                    /\ trace'[j + 1].file = trace'[j].file
                    /\ trace'[j + 1].tmpLocation = trace'[j].file
                    /\ trace'[j + 1].d \notin alive
                    /\ trace'[j + 1].d \in alive'
                    /\ tmpdir'[trace'[j + 1].d] = parent(trace'[j].file)
                    /\ \/ /\ trace'[j + 1].d \in Range(pendingActions')
                          /\ state'[trace'[j + 1].d] = "PENDING"
                          /\ dashboardTask'[trace'[j + 1].d] = "PENDING"
                       \/ /\ trace'[j + 1].d \in Range(activeActions')
                          /\ trace'[j + 1].d \in StartedBy(trace')
               ELSE j < Len(trace') => trace'[j + 1].call # "beginTask"]_vars

\* C19 witness: the last handler committed a provision of LIB by x.o, F1
\* made an action on its trigger, and the new driver waits in pendingActions
\* with x.o as its source and tmp location.
C19_Witness ==
  \E j \in 1..Len(trace) :
    /\ trace[j].call = "beginTask"
    /\ j > 1
    /\ trace[j - 1].call = "tryMakeAction" /\ trace[j - 1].id = "LIB"
    /\ trace[j - 1].factory = "F1"
    /\ trace[j].file = trace[j].tmpLocation
    /\ InPending(trace[j].d) /\ state[trace[j].d] = "PENDING"

\* C20: no driver in blockedActionPtrs has among its missing dependencies
\* an entity that entityMap already maps to a file.
C20_NoLostWakeup ==
  \A d \in blockedActionPtrs :
    \A id \in missingDependencies[d] : entityMap[id] = NoFile

\* C20 case: a running action recorded HDR as missing, and HDR has been
\* published since, before the action's DoneCallback.
C20_Witness ==
  \E d \in alive :
    /\ InActive(d)
    /\ state[d] \in {"RUNNING", "FAILED"}
    /\ "HDR" \in missingDependencies[d]
    /\ entityMap["HDR"] # NoFile

====
